---------------------------- MODULE Spec2Model ----------------------------
(***************************************************************************)
(* Node quantization configuration resolution of model_compression_toolkit *)
(* (core/common/quantization/set_node_quantization_config.py).             *)
(*                                                                         *)
(* The graph pass set_quantization_configuration_to_graph walks the nodes  *)
(* of a graph in order and attaches to each node a list of quantization    *)
(* candidates.  One step of the model is one iteration of that loop, i.e.  *)
(* one whole call of set_quantization_configs_to_node.                     *)
(***************************************************************************)
EXTENDS Integers, Sequences, FiniteSets, TLC

(***************************************************************************)
(* Bounds of the model.                                                    *)
(***************************************************************************)
MaxNodes == 2       \* nodes of a graph
MaxCfgs == 3        \* op configs of a QuantizationConfigOptions
MaxCands == 4       \* Len(graph.nodes) * Len(quantization_config_list)
MaxMutations == 1   \* later writes to a candidate's policy object

(***************************************************************************)
(* Values.                                                                 *)
(***************************************************************************)
NONE == "None"                  \* Python's None
KERNEL == "kernel"
BIAS == "bias"
POWER_OF_TWO == "POWER_OF_TWO"  \* a method every selector knows
UNSUPPORTED == "UNSUPPORTED"    \* a method no selector knows

\* The quantization policy (QuantizationConfig) as a value.  One field is
\* enough to tell a policy object that was written to from one that was not.
Policy(bias_correction) == [weights_bias_correction |-> bias_correction]

\* AttributeQuantizationConfig
AttrCfg(n_bits, method, enable) ==
    [weights_n_bits |-> n_bits,
     weights_quantization_method |-> method,
     enable_weights_quantization |-> enable]

\* OpQuantizationConfig.  oid is the identity of the object: the position of
\* the op config in options.quantization_config_list.
OpCfg(kernel_cfg, default_cfg, a_bits, a_method, a_enable) ==
    [oid |-> 0,
     attr_weights_configs_mapping |-> [a \in {KERNEL} |-> kernel_cfg],
     default_weight_attr_config |-> default_cfg,
     activation_n_bits |-> a_bits,
     activation_quantization_method |-> a_method,
     enable_activation_quantization |-> a_enable]

\* The op configs a target platform model offers (by weights bits of the
\* kernel, activation bits):
\*   (8,8)  (4,8)  (8,4): every method known, enable flags varied;
\*   (2,2): the default attribute config has an unknown method;
\*   (4,4): the kernel's weights method is unknown;
\*   (8,4): the activation method is unknown.
OpCfgs ==
    { OpCfg(AttrCfg(8, POWER_OF_TWO, TRUE), AttrCfg(4, POWER_OF_TWO, FALSE),
            8, POWER_OF_TWO, TRUE),
      OpCfg(AttrCfg(4, POWER_OF_TWO, TRUE), AttrCfg(8, POWER_OF_TWO, TRUE),
            8, POWER_OF_TWO, FALSE),
      OpCfg(AttrCfg(8, POWER_OF_TWO, FALSE), AttrCfg(8, POWER_OF_TWO, FALSE),
            4, POWER_OF_TWO, TRUE),
      OpCfg(AttrCfg(2, POWER_OF_TWO, TRUE), AttrCfg(2, UNSUPPORTED, FALSE),
            2, POWER_OF_TWO, TRUE),
      OpCfg(AttrCfg(4, UNSUPPORTED, TRUE), AttrCfg(4, POWER_OF_TWO, TRUE),
            4, POWER_OF_TWO, TRUE),
      OpCfg(AttrCfg(8, POWER_OF_TWO, TRUE), AttrCfg(8, POWER_OF_TWO, TRUE),
            4, UNSUPPORTED, TRUE) }

\* Node types of the framework, and the nodes a graph is made of.
NodeTypes == {"Conv2D", "Dense", "ReLU", "NoKernelEntry", "TwoKernels"}

Node(type, has_weights, has_activation) ==
    [type |-> type,
     has_weights_to_quantize |-> has_weights,
     get_has_activation |-> has_activation]

NodeKinds ==
    { Node("Conv2D", TRUE, TRUE), Node("Conv2D", FALSE, TRUE),
      Node("Conv2D", TRUE, FALSE), Node("Dense", TRUE, TRUE),
      Node("ReLU", FALSE, TRUE), Node("ReLU", FALSE, FALSE),
      Node("NoKernelEntry", FALSE, TRUE), Node("TwoKernels", TRUE, TRUE) }

(***************************************************************************)
(* The framework info (fw_info).                                           *)
(***************************************************************************)
\* fw_info.get_kernel_op_attributes(node_type): the names of the kernel
\* attributes of a node type; [None] for a type without a kernel.
get_kernel_op_attributes(node_type) ==
    CASE node_type \in {"Conv2D", "Dense"} -> <<KERNEL>>
      [] node_type = "ReLU" -> <<NONE>>
      [] node_type = "NoKernelEntry" -> << >>
      [] node_type = "TwoKernels" -> <<KERNEL, BIAS>>

\* fw_info.kernel_channels_mapping.get(node_type): (output, input) channel
\* axis of the kernel; -1 stands for None.
kernel_channels_mapping(node_type) ==
    CASE node_type = "Conv2D" -> <<3, 2>>
      [] node_type = "Dense" -> <<1, 0>>
      [] OTHER -> <<-1, -1>>

\* fw_info.activation_quantizer_mapping.get(method): None if not a key.
activation_quantizer_mapping_get(method) ==
    IF method = POWER_OF_TWO THEN "power_of_two_quantization" ELSE NONE

\* get_weights_quantization_fn(method): None if the selector has no function.
get_weights_quantization_fn(method) ==
    IF method = POWER_OF_TWO THEN "power_of_two_quantizer" ELSE NONE


(***************************************************************************)
(* Python objects and exceptions.                                          *)
(***************************************************************************)
\* The outcome of a call: the exception it raised (NONE if it returned), the
\* value it returned and the heap of policy objects after it.
Returned(value, heap) == [raised |-> NONE, value |-> value, heap |-> heap]
Raised(exception, heap) == [raised |-> exception, value |-> << >>, heap |-> heap]

\* Logger.critical(msg): logs the message and raises.
Logger_critical(msg, heap) == Raised(msg, heap)

\* Mutant of deepcopy: the reference is handed on, no object is made.
deepcopy_alias(heap, qc) == [heap |-> heap, ref |-> qc]

\* copy.deepcopy(qc): a new policy object with the value of the object qc
\* refers to.  The heap is the sequence of policy objects, a reference is an
\* index of it.
deepcopy(heap, qc) == [heap |-> Append(heap, heap[qc]), ref |-> Len(heap) + 1]

\* dict.get(key, default)
dict_get(dict, key, default) == IF key \in DOMAIN dict THEN dict[key] ELSE default

Reverse(s) == [i \in 1..Len(s) |-> s[Len(s) + 1 - i]]

(***************************************************************************)
(* candidates.sort(key=..., reverse=True)                                  *)
(***************************************************************************)
\* Mutant of sort_key: the activation bit-width is left out of the key.
sort_key_weights_only(c) == <<c.weights_quantization_cfg.weights_n_bits, 0>>

\* The key of the sort: (weights_n_bits, activation_n_bits).
sort_key(c) ==
    <<c.weights_quantization_cfg.weights_n_bits,
      c.activation_quantization_cfg.activation_n_bits>>

\* Python's order of tuples: lexicographic.
TupleLess(k1, k2) == k1[1] < k2[1] \/ (k1[1] = k2[1] /\ k1[2] < k2[2])

\* Insertion of c into the ascending sequence s behind every element whose
\* key is not greater: what keeps the forward sort stable.
RECURSIVE InsertStable(_, _)
InsertStable(s, c) ==
    IF s = << >> THEN <<c>>
    ELSE IF TupleLess(sort_key(c), sort_key(Head(s)))
         THEN <<c>> \o s
         ELSE <<Head(s)>> \o InsertStable(Tail(s), c)

\* The stable forward (ascending) sort.
RECURSIVE StableSort(_)
StableSort(s) ==
    IF s = << >> THEN << >>
    ELSE InsertStable(StableSort(SubSeq(s, 1, Len(s) - 1)), s[Len(s)])

\* Mutant of list_sort_reverse: a forward sort reversed afterwards only.
list_sort_reverse_naive(s) == Reverse(StableSort(s))

\* list.sort(reverse=True): the list is reversed, sorted forward by a stable
\* sort and reversed again.
list_sort_reverse(s) == Reverse(StableSort(Reverse(s)))

(***************************************************************************)
(* Candidate synthesis.                                                    *)
(***************************************************************************)
\* CandidateNodeQuantizationConfig(...): the weights and the activation
\* config of one candidate, with the policy object and the op config it was
\* built from.
CandidateNodeQuantizationConfig(qc, op_cfg, activation_quantization_fn, weights_quantization_fn, weights_channels_axis, weights_cfg) ==
    [qc |-> qc,
     op_cfg |-> op_cfg.oid,
     weights_quantization_cfg |->
        [weights_n_bits |-> weights_cfg.weights_n_bits,
         weights_quantization_method |-> weights_cfg.weights_quantization_method,
         enable_weights_quantization |-> weights_cfg.enable_weights_quantization,
         weights_channels_axis |-> weights_channels_axis,
         weights_quantization_fn |-> weights_quantization_fn],
     activation_quantization_cfg |->
        [activation_n_bits |-> op_cfg.activation_n_bits,
         activation_quantization_method |-> op_cfg.activation_quantization_method,
         enable_activation_quantization |-> op_cfg.enable_activation_quantization,
         activation_quantization_fn |-> activation_quantization_fn]]

\* Mutant of resolve_weights_cfg: the default attribute config is taken
\* whatever the mapping holds.
resolve_weights_cfg_default(op_cfg, kernel_attr) == op_cfg.default_weight_attr_config

\* The weights sub-config of op_cfg for the kernel attribute.
resolve_weights_cfg(op_cfg, kernel_attr) ==
    dict_get(op_cfg.attr_weights_configs_mapping, kernel_attr,
             op_cfg.default_weight_attr_config)

\* Mutant of _create_node_single_candidate_qc: a missing function is only
\* logged, the candidate is built with None in its place.
create_node_single_candidate_qc_unchecked(heap, qc, weight_channel_axis, op_cfg, kernel_attr) ==
    LET weights_cfg == resolve_weights_cfg(op_cfg, kernel_attr)
    IN  Returned(CandidateNodeQuantizationConfig(qc, op_cfg,
                     activation_quantizer_mapping_get(op_cfg.activation_quantization_method),
                     get_weights_quantization_fn(weights_cfg.weights_quantization_method),
                     weight_channel_axis, weights_cfg),
                 heap)

\* _create_node_single_candidate_qc
create_node_single_candidate_qc(heap, qc, weight_channel_axis, op_cfg, kernel_attr) ==
    LET weights_cfg == resolve_weights_cfg(op_cfg, kernel_attr)
        weights_quantization_fn ==
            get_weights_quantization_fn(weights_cfg.weights_quantization_method)
        activation_quantization_fn ==
            activation_quantizer_mapping_get(op_cfg.activation_quantization_method)
    IN  IF weights_quantization_fn = NONE
        THEN Logger_critical("Unknown quantization method for weights", heap)
        ELSE IF activation_quantization_fn = NONE
        THEN Logger_critical("Unknown quantization method for activations", heap)
        ELSE Returned(CandidateNodeQuantizationConfig(qc, op_cfg,
                          activation_quantization_fn, weights_quantization_fn,
                          weight_channel_axis, weights_cfg),
                      heap)

\* The loop of the mixed-precision branch of _create_node_candidates_qc over
\* the op configs cfgs still to visit; candidates are those appended so far.
RECURSIVE append_candidates(_, _, _, _, _, _)
append_candidates(heap, qc, weight_channel_axis, cfgs, kernel_attr, candidates) ==
    IF cfgs = << >> THEN Returned(candidates, heap)
    ELSE LET candidate_nbits_qc == deepcopy(heap, qc)
             single == create_node_single_candidate_qc(candidate_nbits_qc.heap,
                           candidate_nbits_qc.ref, weight_channel_axis,
                           Head(cfgs), kernel_attr)
         IN  IF single.raised # NONE THEN single
             ELSE append_candidates(single.heap, qc, weight_channel_axis,
                                    Tail(cfgs), kernel_attr,
                                    Append(candidates, single.value))

\* The candidates of s without those whose key an earlier one has.
RECURSIVE merge_equal_keys(_)
merge_equal_keys(s) ==
    IF s = << >> THEN << >>
    ELSE LET rest == merge_equal_keys(SubSeq(s, 1, Len(s) - 1))
         IN  IF \E j \in 1..Len(rest) : sort_key(rest[j]) = sort_key(s[Len(s)])
             THEN rest
             ELSE Append(rest, s[Len(s)])

\* Mutant of the mixed-precision branch: candidates of equal bit-widths are
\* merged into one.
mixed_precision_candidates_merged(heap, qc, weight_channel_axis, node_qc_options, kernel_attr) ==
    LET built == append_candidates(heap, qc, weight_channel_axis,
                     node_qc_options.quantization_config_list, kernel_attr, << >>)
    IN  IF built.raised # NONE THEN built
        ELSE Returned(list_sort_reverse(merge_equal_keys(built.value)), built.heap)

\* The branch of _create_node_candidates_qc with mixed precision enabled.
mixed_precision_candidates(heap, qc, weight_channel_axis, node_qc_options, kernel_attr) ==
    LET built == append_candidates(heap, qc, weight_channel_axis,
                     node_qc_options.quantization_config_list, kernel_attr, << >>)
    IN  IF built.raised # NONE THEN built
        ELSE Returned(list_sort_reverse(built.value), built.heap)

\* Mutant of the single-precision branch: the first listed op config is
\* used, not the base config.
single_precision_candidates_first(heap, qc, weight_channel_axis, node_qc_options, kernel_attr) ==
    LET single == create_node_single_candidate_qc(heap, qc, weight_channel_axis,
                      node_qc_options.quantization_config_list[1], kernel_attr)
    IN  IF single.raised # NONE THEN single
        ELSE Returned(<<single.value>>, single.heap)

\* The branch of _create_node_candidates_qc with mixed precision disabled.
single_precision_candidates(heap, qc, weight_channel_axis, node_qc_options, kernel_attr) ==
    LET single == create_node_single_candidate_qc(heap, qc, weight_channel_axis,
                      node_qc_options.base_config, kernel_attr)
    IN  IF single.raised # NONE THEN single
        ELSE Returned(<<single.value>>, single.heap)

\* Mutant of _create_node_candidates_qc: the assertion is missing, the first
\* kernel attribute is taken (an IndexError if there is none).
create_node_candidates_qc_unasserted(heap, qc, weight_channel_axis, node_qc_options, node_type, mixed_precision_enable) ==
    LET kernel_attr == get_kernel_op_attributes(node_type)
    IN  IF Len(kernel_attr) = 0 THEN Raised("IndexError", heap)
        ELSE IF mixed_precision_enable
        THEN mixed_precision_candidates(heap, qc, weight_channel_axis,
                                        node_qc_options, kernel_attr[1])
        ELSE single_precision_candidates(heap, qc, weight_channel_axis,
                                         node_qc_options, kernel_attr[1])

\* _create_node_candidates_qc
create_node_candidates_qc(heap, qc, weight_channel_axis, node_qc_options, node_type, mixed_precision_enable) ==
    LET kernel_attr == get_kernel_op_attributes(node_type)
    IN  IF Len(kernel_attr) # 1 THEN Raised("AssertionError", heap)
        ELSE IF mixed_precision_enable
        THEN mixed_precision_candidates(heap, qc, weight_channel_axis,
                                        node_qc_options, kernel_attr[1])
        ELSE single_precision_candidates(heap, qc, weight_channel_axis,
                                         node_qc_options, kernel_attr[1])

\* Mutant of the reconciliation: the activation flag is left as synthesized.
reconcile_enable_flags_weights_only(candidates, node) ==
    [k \in 1..Len(candidates) |->
        [candidates[k] EXCEPT
            !.weights_quantization_cfg.enable_weights_quantization =
                @ /\ node.has_weights_to_quantize]]

\* The enable flags of the candidates of a node, reconciled with what the
\* node has (the loop that ends set_quantization_configs_to_node).
reconcile_enable_flags(candidates, node) ==
    [k \in 1..Len(candidates) |->
        [candidates[k] EXCEPT
            !.weights_quantization_cfg.enable_weights_quantization =
                @ /\ node.has_weights_to_quantize,
            !.activation_quantization_cfg.enable_activation_quantization =
                @ /\ node.get_has_activation]]

\* Mutant of set_quantization_configs_to_node: the second element of the
\* kernel-channel mapping (the input channel axis) is taken.
set_quantization_configs_to_node_input_axis(heap, node, quant_config, node_qc_options, mixed_precision_enable) ==
    LET weight_channel_axis == kernel_channels_mapping(node.type)[2]
        created == create_node_candidates_qc(heap, quant_config,
                       weight_channel_axis, node_qc_options, node.type,
                       mixed_precision_enable)
    IN  IF created.raised # NONE THEN created
        ELSE Returned(reconcile_enable_flags(created.value, node), created.heap)

\* set_quantization_configs_to_node: the candidate list the call assigns to
\* node.candidates_quantization_cfg, or the exception it raises.
set_quantization_configs_to_node(heap, node, quant_config, node_qc_options, mixed_precision_enable) ==
    LET weight_channel_axis == kernel_channels_mapping(node.type)[1]
        created == create_node_candidates_qc(heap, quant_config,
                       weight_channel_axis, node_qc_options, node.type,
                       mixed_precision_enable)
    IN  IF created.raised # NONE THEN created
        ELSE Returned(reconcile_enable_flags(created.value, node), created.heap)

\* Mutant of node_qc_options_after_call: the op config list itself is put in
\* reversed order, in place.
node_qc_options_reordered(node_qc_options, mixed_precision_enable) ==
    IF mixed_precision_enable
    THEN [node_qc_options EXCEPT !.quantization_config_list = Reverse(@)]
    ELSE node_qc_options

\* The options object of a node after _create_node_candidates_qc: the op
\* config list and the base config are read; the list that is built and
\* sorted is a new one.
node_qc_options_after_call(node_qc_options, mixed_precision_enable) == node_qc_options

(***************************************************************************)
(* The state of a run of set_quantization_configuration_to_graph.          *)
(***************************************************************************)
VARIABLES
    nodes,                       \* graph.nodes, in the graph's order
    options,                     \* node.get_qco(tpc): the options of the platform
    quant_config,                \* reference of the policy object of the caller
    mixed_precision_enable,
    heap,                        \* the policy objects
    candidates_quantization_cfg, \* the field of every node
    assigned,                    \* the nodes whose field the pass has assigned
    pc,                          \* "loop", "returned" or "raised"
    n,                           \* position of the loop in graph.nodes
    raised,                      \* the exception that ended the pass
    written,                     \* the policy objects written to after the pass
    calls,                       \* the calls of set_quantization_configs_to_node so far
    result,                      \* <<graph>> once the pass has returned graph
    given,                       \* the arguments as they were when the pass began
    ste                          \* a STEUniformWeightQuantizer (none during the pass)

vars == <<nodes, options, quant_config, mixed_precision_enable, heap, candidates_quantization_cfg, assigned, pc, n, raised, written, calls, result, given, ste>>

inputs == <<nodes, quant_config, mixed_precision_enable>>

\* No quantizer object.
NoQuantizer == [pc |-> "none"]

\* The arguments of the call of set_quantization_configs_to_node for node i.
CallOf(i) == [node |-> i, quant_config |-> quant_config, mixed_precision_enable |-> mixed_precision_enable]

\* QuantizationConfigOptions(quantization_config_list, base_config): the
\* base config is one of the listed op configs.
QuantizationConfigOptions(cfgs, base) ==
    LET quantization_config_list == [i \in 1..Len(cfgs) |-> [cfgs[i] EXCEPT !.oid = i]]
    IN  [quantization_config_list |-> quantization_config_list,
         base_config |-> quantization_config_list[base]]

InitialPolicy == Policy(TRUE)

Init ==
    /\ \E k \in 1..MaxNodes : nodes \in [1..k -> NodeKinds]
    /\ \E l \in 1..MaxCfgs :
          /\ Len(nodes) * l <= MaxCands
          /\ \E cfgs \in [1..l -> OpCfgs], base \in 1..l :
                options = QuantizationConfigOptions(cfgs, base)
    /\ mixed_precision_enable \in BOOLEAN
    /\ quant_config = 1
    /\ heap = <<InitialPolicy>>
    /\ candidates_quantization_cfg = [i \in 1..Len(nodes) |-> << >>]
    /\ assigned = {}
    /\ pc = "loop"
    /\ n = 1
    /\ raised = NONE
    /\ written = << >>
    /\ calls = << >>
    /\ result = << >>
    /\ given = [nodes |-> nodes, options |-> options, quant_config |-> quant_config, policy |-> heap[quant_config]]
    /\ ste = NoQuantizer

\* The call of set_quantization_configs_to_node for the node the loop is at.
NodeCall ==
    set_quantization_configs_to_node(heap, nodes[n], quant_config, options, mixed_precision_enable)

\* Mutant of ApplyToNode: the loop steps over the node behind node n.
ApplyToNode_skip_next ==
    /\ pc = "loop"
    /\ n <= Len(nodes)
    /\ NodeCall.raised = NONE
    /\ candidates_quantization_cfg' = [candidates_quantization_cfg EXCEPT ![n] = NodeCall.value]
    /\ assigned' = assigned \cup {n}
    /\ heap' = NodeCall.heap
    /\ options' = node_qc_options_after_call(options, mixed_precision_enable)
    /\ calls' = Append(calls, CallOf(n))
    /\ n' = n + 2
    /\ UNCHANGED <<inputs, pc, raised, written, result, given, ste>>

\* One iteration of the loop of set_quantization_configuration_to_graph: the
\* call for node n returns, the node has its candidates.
ApplyToNode ==
    /\ pc = "loop"
    /\ n <= Len(nodes)
    /\ NodeCall.raised = NONE
    /\ candidates_quantization_cfg' = [candidates_quantization_cfg EXCEPT ![n] = NodeCall.value]
    /\ assigned' = assigned \cup {n}
    /\ heap' = NodeCall.heap
    /\ options' = node_qc_options_after_call(options, mixed_precision_enable)
    /\ calls' = Append(calls, CallOf(n))
    /\ n' = n + 1
    /\ UNCHANGED <<inputs, pc, raised, written, result, given, ste>>

\* The call for node n fails the assertion on the kernel attributes: the
\* exception leaves the loop and the pass.
RaiseAssertionError ==
    /\ pc = "loop"
    /\ n <= Len(nodes)
    /\ NodeCall.raised = "AssertionError"
    /\ pc' = "raised"
    /\ raised' = NodeCall.raised
    /\ heap' = NodeCall.heap
    /\ calls' = Append(calls, CallOf(n))
    /\ UNCHANGED <<inputs, options, candidates_quantization_cfg, assigned, n, written, result, given, ste>>

\* Mutant of RaiseUnknownMethod: the node is skipped, the loop goes on.
RaiseUnknownMethod_skip ==
    /\ pc = "loop"
    /\ n <= Len(nodes)
    /\ NodeCall.raised \notin {NONE, "AssertionError"}
    /\ n' = n + 1
    /\ calls' = Append(calls, CallOf(n))
    /\ UNCHANGED <<inputs, options, heap, candidates_quantization_cfg, assigned, pc, raised, written, result, given, ste>>

\* The call for node n meets a quantization method without a function:
\* the exception of Logger.critical leaves the loop and the pass.  The policy
\* copies made for the node so far stay on the heap, referenced by nothing.
RaiseUnknownMethod ==
    /\ pc = "loop"
    /\ n <= Len(nodes)
    /\ NodeCall.raised \notin {NONE, "AssertionError"}
    /\ pc' = "raised"
    /\ raised' = NodeCall.raised
    /\ heap' = NodeCall.heap
    /\ calls' = Append(calls, CallOf(n))
    /\ UNCHANGED <<inputs, options, candidates_quantization_cfg, assigned, n, written, result, given, ste>>

\* Mutant of ReturnGraph: the loop ends one node early.
ReturnGraph_early ==
    /\ pc = "loop"
    /\ n >= Len(nodes)
    /\ pc' = "returned"
    /\ result' = <<nodes>>
    /\ UNCHANGED <<inputs, options, heap, candidates_quantization_cfg, assigned, n, raised, written, calls, given, ste>>

\* The loop is over: return graph.
ReturnGraph ==
    /\ pc = "loop"
    /\ n > Len(nodes)
    /\ pc' = "returned"
    /\ result' = <<nodes>>
    /\ UNCHANGED <<inputs, options, heap, candidates_quantization_cfg, assigned, n, raised, written, calls, given, ste>>

\* A later stage writes to the policy object of candidate k of node i.
MutateCandidatePolicy ==
    /\ pc = "returned"
    /\ Len(written) < MaxMutations
    /\ \E i \in 1..Len(nodes) : \E k \in 1..Len(candidates_quantization_cfg[i]) :
          LET ref == candidates_quantization_cfg[i][k].qc
          IN  /\ heap' = [heap EXCEPT ![ref] = Policy(~@.weights_bias_correction)]
              /\ written' = Append(written, ref)
    /\ UNCHANGED <<inputs, options, candidates_quantization_cfg, assigned, pc, n, raised, calls, result, given, ste>>

Next ==
    \/ ApplyToNode
    \/ RaiseAssertionError
    \/ RaiseUnknownMethod
    \/ ReturnGraph
    \/ MutateCandidatePolicy

Spec == Init /\ [][Next]_vars

(***************************************************************************)
(* What the properties read.                                               *)
(***************************************************************************)
ConfigList == options.quantization_config_list

Candidates(i) == candidates_quantization_cfg[i]

WeightsBits(c) == c.weights_quantization_cfg.weights_n_bits
ActivationBits(c) == c.activation_quantization_cfg.activation_n_bits

\* The op configs the pass reads for a node, by identity.
UsedCfgs == IF mixed_precision_enable THEN 1..Len(ConfigList) ELSE {options.base_config.oid}

\* A node type with exactly one kernel attribute name.
KernelResolves(node) == Len(get_kernel_op_attributes(node.type)) = 1

\* The weights sub-config op config o has for the kernel attribute of node.
WeightsCfgOf(o, node) == resolve_weights_cfg(ConfigList[o], get_kernel_op_attributes(node.type)[1])

\* Op config o carries, for node, a method without a function.
UnknownMethod(o, node) ==
    \/ get_weights_quantization_fn(WeightsCfgOf(o, node).weights_quantization_method) = NONE
    \/ activation_quantizer_mapping_get(ConfigList[o].activation_quantization_method) = NONE

\* Node i meets a fatal condition.
Fatal(i) ==
    \/ ~KernelResolves(nodes[i])
    \/ \E o \in UsedCfgs : UnknownMethod(o, nodes[i])

(***************************************************************************)
(* C1: with mixed precision enabled, the candidate list attached to a node *)
(* is in descending order of (weights_n_bits, activation_n_bits): of two   *)
(* adjacent candidates the first has more weights bits, or as many and at  *)
(* least as many activation bits.                                          *)
(***************************************************************************)
C1_SortedDescending ==
    mixed_precision_enable =>
        \A i \in assigned : \A k \in 1..(Len(Candidates(i)) - 1) :
            LET c == Candidates(i)[k]
                d == Candidates(i)[k + 1]
            IN  \/ WeightsBits(c) > WeightsBits(d)
                \/ WeightsBits(c) = WeightsBits(d) /\ ActivationBits(c) >= ActivationBits(d)

\* Three candidates that the sort had to reorder, two of them with equal
\* weights bits and different activation bits.
C1_Witness ==
    /\ mixed_precision_enable
    /\ \E i \in assigned :
          /\ Len(Candidates(i)) = 3
          /\ Candidates(i)[1].op_cfg # 1
          /\ \E k \in 1..2 :
                /\ WeightsBits(Candidates(i)[k]) = WeightsBits(Candidates(i)[k + 1])
                /\ ActivationBits(Candidates(i)[k]) > ActivationBits(Candidates(i)[k + 1])
                /\ Candidates(i)[k].op_cfg > Candidates(i)[k + 1].op_cfg

(***************************************************************************)
(* C2: with mixed precision enabled the sort is stable: two candidates     *)
(* with equal weights bits and equal activation bits stand in the order in *)
(* which their op configs stand in options.quantization_config_list.       *)
(***************************************************************************)
C2_StableSort ==
    mixed_precision_enable =>
        \A i \in assigned : \A j, k \in 1..Len(Candidates(i)) :
            (/\ j < k
             /\ WeightsBits(Candidates(i)[j]) = WeightsBits(Candidates(i)[k])
             /\ ActivationBits(Candidates(i)[j]) = ActivationBits(Candidates(i)[k]))
            => Candidates(i)[j].op_cfg < Candidates(i)[k].op_cfg

\* A tie of two candidates in a list the sort had to reorder.
C2_Witness ==
    /\ mixed_precision_enable
    /\ \E i \in assigned : \E j, k \in 1..Len(Candidates(i)) :
          /\ j < k
          /\ WeightsBits(Candidates(i)[j]) = WeightsBits(Candidates(i)[k])
          /\ ActivationBits(Candidates(i)[j]) = ActivationBits(Candidates(i)[k])
          /\ Candidates(i)[1].op_cfg # 1

(***************************************************************************)
(* C3: with mixed precision enabled the candidate list of a node has as    *)
(* many entries as options.quantization_config_list, and every op config   *)
(* of the list has exactly one candidate, which carries the weights bits   *)
(* of its resolved weights sub-config and its activation bits.             *)
(***************************************************************************)
C3_OneCandidatePerOpCfg ==
    mixed_precision_enable =>
        \A i \in assigned :
            /\ Len(Candidates(i)) = Len(ConfigList)
            /\ \A o \in 1..Len(ConfigList) :
                  /\ Cardinality({k \in 1..Len(Candidates(i)) : Candidates(i)[k].op_cfg = o}) = 1
                  /\ \A k \in 1..Len(Candidates(i)) :
                        Candidates(i)[k].op_cfg = o =>
                            /\ WeightsBits(Candidates(i)[k]) = WeightsCfgOf(o, nodes[i]).weights_n_bits
                            /\ ActivationBits(Candidates(i)[k]) = ConfigList[o].activation_n_bits

\* A list of three op configs, two of them with the same bit-widths.
C3_Witness ==
    /\ mixed_precision_enable
    /\ \E i \in assigned :
          /\ Len(ConfigList) = 3
          /\ \E o, q \in 1..3 :
                /\ o # q
                /\ WeightsCfgOf(o, nodes[i]).weights_n_bits = WeightsCfgOf(q, nodes[i]).weights_n_bits
                /\ ConfigList[o].activation_n_bits = ConfigList[q].activation_n_bits

(***************************************************************************)
(* C4: with mixed precision disabled the candidate list of a node has      *)
(* exactly one entry, built from options.base_config, whatever             *)
(* options.quantization_config_list holds.                                 *)
(***************************************************************************)
C4_SingleCandidateFromBase ==
    ~mixed_precision_enable =>
        \A i \in assigned :
            /\ Len(Candidates(i)) = 1
            /\ Candidates(i)[1].op_cfg = options.base_config.oid
            /\ WeightsBits(Candidates(i)[1]) =
                   resolve_weights_cfg(options.base_config, get_kernel_op_attributes(nodes[i].type)[1]).weights_n_bits
            /\ ActivationBits(Candidates(i)[1]) = options.base_config.activation_n_bits

\* The base config is not the first of several op configs, and differs from
\* it in its bit-widths.
C4_Witness ==
    /\ ~mixed_precision_enable
    /\ Len(ConfigList) = 3
    /\ options.base_config.oid = 2
    /\ \E i \in assigned :
          /\ Len(Candidates(i)) = 1
          /\ WeightsBits(Candidates(i)[1]) # WeightsCfgOf(1, nodes[i]).weights_n_bits

(***************************************************************************)
(* C5: once set_quantization_configuration_to_graph has returned, every    *)
(* node of the graph has a non-empty candidate list, in both modes.        *)
(***************************************************************************)
C5_NonEmptyAfterReturn ==
    pc = "returned" =>
        \A i \in 1..Len(nodes) : i \in assigned /\ Candidates(i) # << >>

\* The pass has returned for a graph of two nodes.
C5_Witness ==
    /\ pc = "returned"
    /\ Len(nodes) = 2
    /\ Len(Candidates(1)) + Len(Candidates(2)) >= 2

(***************************************************************************)
(* C6: after set_quantization_configs_to_node, on every candidate of the   *)
(* node the weights-enable flag is the flag of the resolved weights        *)
(* sub-config of its op config AND node.has_weights_to_quantize, and the   *)
(* activation-enable flag is the flag of its op config AND                 *)
(* node.get_has_activation; whether the node has one candidate or several. *)
(***************************************************************************)
C6_EnableFlagsReconciled ==
    \A i \in assigned : \A k \in 1..Len(Candidates(i)) :
        LET c == Candidates(i)[k]
        IN  /\ c.weights_quantization_cfg.enable_weights_quantization =
                  (WeightsCfgOf(c.op_cfg, nodes[i]).enable_weights_quantization
                      /\ nodes[i].has_weights_to_quantize)
            /\ c.activation_quantization_cfg.enable_activation_quantization =
                  (ConfigList[c.op_cfg].enable_activation_quantization
                      /\ nodes[i].get_has_activation)

\* A node without activation and with several candidates, one from an op
\* config that enables activation quantization and one from an op config
\* that does not, and a weights flag that is on.
C6_Witness ==
    \E i \in assigned :
        /\ ~nodes[i].get_has_activation
        /\ Len(Candidates(i)) >= 2
        /\ \E k \in 1..Len(Candidates(i)) :
              ConfigList[Candidates(i)[k].op_cfg].enable_activation_quantization
        /\ \E k \in 1..Len(Candidates(i)) :
              ~ConfigList[Candidates(i)[k].op_cfg].enable_activation_quantization
        /\ \E k \in 1..Len(Candidates(i)) :
              Candidates(i)[k].weights_quantization_cfg.enable_weights_quantization

(***************************************************************************)
(* C7: with mixed precision enabled every candidate is built from a policy *)
(* object of its own: no two candidates share one, none has the policy     *)
(* object of the caller, and a write to the policy object of one candidate *)
(* changes neither the caller's policy nor the policy of another           *)
(* candidate.                                                              *)
(***************************************************************************)
CandidateSlots == {<<i, k>> \in (1..Len(nodes)) \X (1..MaxCfgs) : k <= Len(Candidates(i))}

PolicyRef(slot) == Candidates(slot[1])[slot[2]].qc

WrittenRefs == {written[m] : m \in 1..Len(written)}

C7_PolicyIsolation ==
    mixed_precision_enable =>
        /\ \A x \in CandidateSlots : PolicyRef(x) # quant_config
        /\ \A x, y \in CandidateSlots : x # y => PolicyRef(x) # PolicyRef(y)
        /\ heap[quant_config] = InitialPolicy
        /\ \A x \in CandidateSlots :
              PolicyRef(x) \notin WrittenRefs => heap[PolicyRef(x)] = InitialPolicy

\* The policy object of one of several candidates of a node was written to.
C7_Witness ==
    /\ mixed_precision_enable
    /\ Len(written) >= 1
    /\ \E i \in assigned :
          /\ Len(Candidates(i)) >= 2
          /\ \E k \in 1..Len(Candidates(i)) :
                /\ Candidates(i)[k].qc \in WrittenRefs
                /\ heap[Candidates(i)[k].qc] # InitialPolicy

(***************************************************************************)
(* C8: a node type for which get_kernel_op_attributes gives no or several  *)
(* attribute names ends the call with the assertion, in both modes, before *)
(* a candidate or a policy copy is made for the node, and the candidate    *)
(* list of the node stays as it was.                                       *)
(***************************************************************************)
\* The policy copies the pass has made for the nodes it has assigned.
CopiesOfAssigned == IF mixed_precision_enable THEN Cardinality(assigned) * Len(ConfigList) ELSE 0

C8_KernelAssertion ==
    /\ \A i \in assigned : KernelResolves(nodes[i])
    /\ (pc # "loop" /\ n <= Len(nodes) /\ ~KernelResolves(nodes[n])) =>
          /\ pc = "raised"
          /\ raised = "AssertionError"
          /\ n \notin assigned
          /\ Candidates(n) = << >>
          /\ Len(heap) = 1 + CopiesOfAssigned

\* The assertion ended the pass at the second node, after the first node
\* got several candidates.
C8_Witness ==
    /\ pc = "raised"
    /\ raised = "AssertionError"
    /\ n = 2
    /\ Len(get_kernel_op_attributes(nodes[n].type)) = 2
    /\ Len(Candidates(1)) = 2

(***************************************************************************)
(* C9: an op config read for a node that carries a weights or activation   *)
(* method without a function ends the call at once: the node's candidate   *)
(* list is not assigned, not even with the candidates built from the op    *)
(* configs before it in the list.                                          *)
(***************************************************************************)
C9_UnknownMethodAborts ==
    /\ \A i \in assigned : \A o \in UsedCfgs : ~UnknownMethod(o, nodes[i])
    /\ (pc # "loop" /\ n <= Len(nodes) /\ KernelResolves(nodes[n])
            /\ \E o \in UsedCfgs : UnknownMethod(o, nodes[n])) =>
          /\ pc = "raised"
          /\ raised \in {"Unknown quantization method for weights",
                         "Unknown quantization method for activations"}
          /\ n \notin assigned
          /\ Candidates(n) = << >>

\* The third op config of a mixed-precision list has the unknown method,
\* two candidates had been built (with their policy copies) before it.
C9_Witness ==
    /\ pc = "raised"
    /\ mixed_precision_enable
    /\ n = 1
    /\ Len(ConfigList) = 3
    /\ ~UnknownMethod(1, nodes[n])
    /\ ~UnknownMethod(2, nodes[n])
    /\ UnknownMethod(3, nodes[n])
    /\ Len(heap) = 4
    /\ Candidates(n) = << >>

(***************************************************************************)
(* C10: a fatal condition met at a node ends the whole pass: the pass does *)
(* not return the graph, the node is not skipped, and neither it nor a     *)
(* node behind it in graph.nodes is given candidates.                      *)
(***************************************************************************)
FatalNodes == {i \in 1..Len(nodes) : Fatal(i)}

FirstFatal == CHOOSE i \in FatalNodes : \A j \in FatalNodes : i <= j

C10_FatalAbortsPass ==
    FatalNodes # {} =>
        /\ pc # "returned"
        /\ n <= FirstFatal
        /\ assigned \subseteq 1..(FirstFatal - 1)
        /\ \A i \in FirstFatal..Len(nodes) : Candidates(i) = << >>
        /\ pc = "raised" => (n = FirstFatal /\ raised # NONE)

\* The pass was ended at the first of two nodes, the second is not fatal.
C10_Witness ==
    /\ pc = "raised"
    /\ n = 1
    /\ Len(nodes) = 2
    /\ ~Fatal(2)
    /\ Candidates(2) = << >>

(***************************************************************************)
(* C11: the weights sub-config of a candidate is the entry of its op       *)
(* config's attribute mapping for the kernel attribute name when the name  *)
(* is a key of the mapping, and the op config's default attribute config   *)
(* otherwise; the weights bit-width, the method and the weights-enable     *)
(* flag before reconciliation of the candidate are those of that           *)
(* sub-config, and so is the bit-width the list is ordered by.             *)
(***************************************************************************)
\* The name of the kernel attribute of a node whose kernel resolves.
KernelAttr(node) == get_kernel_op_attributes(node.type)[1]

\* Candidate c of node carries the bit-width, the method and (reconciled)
\* the enable flag of the attribute config cfg.
CarriesWeightsCfg(c, cfg, node) ==
    /\ c.weights_quantization_cfg.weights_n_bits = cfg.weights_n_bits
    /\ c.weights_quantization_cfg.weights_quantization_method = cfg.weights_quantization_method
    /\ c.weights_quantization_cfg.enable_weights_quantization =
          (cfg.enable_weights_quantization /\ node.has_weights_to_quantize)

C11_WeightsCfgResolution ==
    \A i \in assigned : \A k \in 1..Len(Candidates(i)) :
        LET c == Candidates(i)[k]
            op_cfg == ConfigList[c.op_cfg]
        IN  /\ KernelAttr(nodes[i]) \in DOMAIN op_cfg.attr_weights_configs_mapping =>
                  CarriesWeightsCfg(c, op_cfg.attr_weights_configs_mapping[KernelAttr(nodes[i])], nodes[i])
            /\ KernelAttr(nodes[i]) \notin DOMAIN op_cfg.attr_weights_configs_mapping =>
                  CarriesWeightsCfg(c, op_cfg.default_weight_attr_config, nodes[i])
            /\ k < Len(Candidates(i)) =>
                  WeightsBits(c) >= WeightsBits(Candidates(i)[k + 1])

\* The same op config, whose mapped and default sub-configs differ in their
\* bit-widths, gave a candidate to a node with a mapped kernel attribute and
\* to a node whose kernel attribute is not mapped.
C11_Witness ==
    \E i, j \in assigned :
        /\ KernelAttr(nodes[i]) = KERNEL
        /\ KernelAttr(nodes[j]) = NONE
        /\ \E k \in 1..Len(Candidates(i)) : \E m \in 1..Len(Candidates(j)) :
              /\ Candidates(i)[k].op_cfg = Candidates(j)[m].op_cfg
              /\ WeightsBits(Candidates(i)[k]) # WeightsBits(Candidates(j)[m])
              /\ WeightsBits(Candidates(i)[k]) =
                    ConfigList[Candidates(i)[k].op_cfg].attr_weights_configs_mapping[KERNEL].weights_n_bits
              /\ WeightsBits(Candidates(j)[m]) =
                    ConfigList[Candidates(j)[m].op_cfg].default_weight_attr_config.weights_n_bits

(***************************************************************************)
(* C13: the weight channel axis of every candidate of a node is the first  *)
(* element of fw_info.kernel_channels_mapping for the type of the node;    *)
(* all candidates of a node carry the same axis, whatever op config they   *)
(* come from, in both modes.                                               *)
(***************************************************************************)
C13_WeightChannelAxis ==
    \A i \in assigned : \A k \in 1..Len(Candidates(i)) :
        /\ Candidates(i)[k].weights_quantization_cfg.weights_channels_axis =
              kernel_channels_mapping(nodes[i].type)[1]
        /\ Candidates(i)[k].weights_quantization_cfg.weights_channels_axis =
              Candidates(i)[1].weights_quantization_cfg.weights_channels_axis

\* Two nodes of types with different channel axes, each with two candidates
\* from different op configs.
C13_Witness ==
    /\ assigned = {1, 2}
    /\ kernel_channels_mapping(nodes[1].type)[1] # kernel_channels_mapping(nodes[2].type)[1]
    /\ kernel_channels_mapping(nodes[1].type)[1] # kernel_channels_mapping(nodes[1].type)[2]
    /\ Len(Candidates(1)) = 2
    /\ Len(Candidates(2)) = 2
    /\ Candidates(1)[1].weights_quantization_cfg.weights_channels_axis = 3
    /\ Candidates(2)[2].weights_quantization_cfg.weights_channels_axis = 1

(***************************************************************************)
(* C12: set_quantization_configuration_to_graph calls                      *)
(* set_quantization_configs_to_node exactly once for every node of         *)
(* graph.nodes, in the order of graph.nodes, with the same policy and the  *)
(* same mixed-precision flag, and returns the graph it was given.          *)
(***************************************************************************)
C12_EveryNodeOnceInOrder ==
    /\ Len(calls) <= Len(nodes)
    /\ \A k \in 1..Len(calls) :
          calls[k] = [node |-> k, quant_config |-> given.quant_config,
                      mixed_precision_enable |-> mixed_precision_enable]
    /\ pc = "returned" => (Len(calls) = Len(nodes) /\ result = <<given.nodes>>)
    /\ pc # "returned" => result = << >>

\* The pass has returned for a graph of two different nodes.
C12_Witness ==
    /\ pc = "returned"
    /\ Len(nodes) = 2
    /\ nodes[1] # nodes[2]
    /\ Len(calls) = 2
    /\ calls[2].node = 2

(***************************************************************************)
(* C14: the pass only reads its arguments: with mixed precision enabled    *)
(* the policy object of the caller and the options of the nodes (the op    *)
(* config list, its order, and the base config) are as they were when the  *)
(* pass began; of a node only candidates_quantization_cfg is written.      *)
(***************************************************************************)
C14_ArgumentsOnlyRead ==
    mixed_precision_enable =>
        /\ options = given.options
        /\ nodes = given.nodes
        /\ quant_config = given.quant_config
        /\ heap[quant_config] = given.policy

\* The pass has returned, the sort had to reorder the candidates of a node,
\* and a candidate's policy was written to afterwards.
C14_Witness ==
    /\ mixed_precision_enable
    /\ pc = "returned"
    /\ Len(written) >= 1
    /\ \E i \in assigned :
          /\ Len(Candidates(i)) >= 2
          /\ Candidates(i)[1].op_cfg # 1
          /\ ConfigList[1].oid = 1

(***************************************************************************)
(* STEUniformWeightQuantizer (qat/pytorch/quantizer/ste_rounding).         *)
(*                                                                         *)
(* A tensor is the sequence of its values, one per output channel; the     *)
(* range of a quantizer is a sequence of one value (per tensor) or of one  *)
(* value per channel.  Values are integers: the ranges below lie on the    *)
(* grid of their step, zero included.                                      *)
(***************************************************************************)
MaxChannels == 2    \* output channels of a weight tensor

RANGE_MIN == "range_min"
RANGE_MAX == "range_max"

RECURSIVE Pow2(_)
Pow2(k) == IF k = 0 THEN 1 ELSE 2 * Pow2(k - 1)

\* NodeWeightsQuantizationConfig, as far as the quantizer reads it.
WeightsQuantizationConfig(n_bits, range_min, range_max, per_channel) ==
    [weights_n_bits |-> n_bits,
     weights_quantization_params |-> [p \in {RANGE_MIN, RANGE_MAX} |-> IF p = RANGE_MIN THEN range_min ELSE range_max],
     weights_per_channel_threshold |-> per_channel]

\* The range [low, low + step * (2^n_bits - 1)] for every channel c, moved
\* by c - 1 steps when the thresholds are per channel.
RangeMin(low, step, channels) == [c \in 1..channels |-> low - (c - 1) * step]
RangeMax(low, step, n_bits, channels) ==
    [c \in 1..channels |-> low - (c - 1) * step + step * (Pow2(n_bits) - 1)]

\* The weights configs a quantizer is constructed from.
WeightsQuantizationConfigs ==
    { WeightsQuantizationConfig(n_bits, RangeMin(low * step, step, channels),
                                RangeMax(low * step, step, n_bits, channels), channels > 1) :
        n_bits \in {2, 3}, step \in {1, 2}, low \in {-2, -1, 0}, channels \in {1, MaxChannels} }

Tensors == [1..MaxChannels -> {-3, 0, 2, 5}]

\* round(x / delta) for x >= 0, halves to the even neighbour (torch.round).
RoundDiv(x, delta) ==
    LET q == x \div delta
        r == x % delta
    IN  IF 2 * r < delta THEN q
        ELSE IF 2 * r > delta THEN q + 1
        ELSE IF q % 2 = 0 THEN q ELSE q + 1

\* uniform_quantizer on one value: clip to [a, b], round to the grid of
\* 2^n_bits levels between a and b.
quantize_value(x, a, b, n_bits) ==
    LET delta == (b - a) \div (Pow2(n_bits) - 1)
        clipped == IF x < a THEN a ELSE IF x > b THEN b ELSE x
    IN  a + delta * RoundDiv(clipped - a, delta)

\* uniform_quantizer(tensor_data, range_min, range_max, n_bits); a range of
\* one value is broadcast to every channel.
uniform_quantizer(tensor_data, range_min, range_max, n_bits) ==
    [c \in 1..Len(tensor_data) |->
        quantize_value(tensor_data[c],
                       range_min[IF Len(range_min) = 1 THEN 1 ELSE c],
                       range_max[IF Len(range_max) = 1 THEN 1 ELSE c],
                       n_bits)]

\* obj.name: the value of the attribute, AttributeError if obj has none of
\* that name.
getattr(obj, name) ==
    IF name \in DOMAIN obj
    THEN [raised |-> NONE, value |-> obj[name]]
    ELSE [raised |-> "AttributeError", value |-> << >>]

\* STEUniformWeightQuantizer.__init__: the attributes of the new object.
\* quantization_config is set by the base class.
STEUniformWeightQuantizer_init(quantization_config) ==
    [quantization_config |-> quantization_config,
     num_bits |-> quantization_config.weights_n_bits,
     min_int |-> 0,
     max_int |-> Pow2(quantization_config.weights_n_bits) - 1,
     max_values |-> quantization_config.weights_quantization_params[RANGE_MAX],
     min_values |-> quantization_config.weights_quantization_params[RANGE_MIN],
     min_max_shape |-> IF quantization_config.weights_per_channel_threshold
                       THEN <<Len(quantization_config.weights_quantization_params[RANGE_MAX])>>
                       ELSE << >>,
     max |-> quantization_config.weights_quantization_params[RANGE_MAX],
     min |-> quantization_config.weights_quantization_params[RANGE_MIN],
     quantizer_parameters |-> << >>]

\* STEUniformWeightQuantizer.__call__(inputs, training): the arguments of
\* uniform_quantizer are evaluated from left to right, then it is called.
STEUniformWeightQuantizer_call(self, tensor, training) ==
    LET min_values == getattr(self, "min_values")
        max_values == getattr(self, "max_values")
        num_bit == getattr(self, "num_bit")
    IN  IF min_values.raised # NONE THEN min_values
        ELSE IF max_values.raised # NONE THEN max_values
        ELSE IF num_bit.raised # NONE THEN num_bit
        ELSE [raised |-> NONE,
              value |-> uniform_quantizer(tensor, min_values.value, max_values.value, num_bit.value)]

\* The state a pass over a graph without nodes has returned in.
PassOver ==
    /\ nodes = << >>
    /\ options = QuantizationConfigOptions(<<OpCfg(AttrCfg(8, POWER_OF_TWO, TRUE), AttrCfg(8, POWER_OF_TWO, TRUE), 8, POWER_OF_TWO, TRUE)>>, 1)
    /\ mixed_precision_enable = FALSE
    /\ quant_config = 1
    /\ heap = <<InitialPolicy>>
    /\ candidates_quantization_cfg = << >>
    /\ assigned = {}
    /\ pc = "returned"
    /\ n = 1
    /\ raised = NONE
    /\ written = << >>
    /\ calls = << >>
    /\ result = <<nodes>>
    /\ given = [nodes |-> nodes, options |-> options, quant_config |-> quant_config, policy |-> heap[quant_config]]

pass == <<nodes, options, quant_config, mixed_precision_enable, heap, candidates_quantization_cfg, assigned, pc, n, raised, written, calls, result, given>>

InitSTE ==
    /\ PassOver
    /\ \E quantization_config \in WeightsQuantizationConfigs :
          ste = [pc |-> "new", quantization_config |-> quantization_config]

\* STEUniformWeightQuantizer(quantization_config)
STEConstruct ==
    /\ ste.pc = "new"
    /\ ste' = [pc |-> "constructed",
               quantization_config |-> ste.quantization_config,
               self |-> STEUniformWeightQuantizer_init(ste.quantization_config)]
    /\ UNCHANGED pass

\* quantizer(inputs, training)
STECall ==
    /\ ste.pc = "constructed"
    /\ \E tensor \in Tensors, training \in BOOLEAN :
          ste' = [pc |-> "called",
                  quantization_config |-> ste.quantization_config,
                  self |-> ste.self,
                  tensor |-> tensor,
                  training |-> training,
                  outcome |-> STEUniformWeightQuantizer_call(ste.self, tensor, training)]
    /\ UNCHANGED pass

NextSTE ==
    \/ STEConstruct
    \/ STECall

SpecSTE == InitSTE /\ [][NextSTE]_vars

(***************************************************************************)
(* C15: the call of a constructed STEUniformWeightQuantizer on a tensor    *)
(* does not raise, in either training mode, and returns what               *)
(* uniform_quantizer gives for the tensor, min_values, max_values and the  *)
(* bit-width stored at construction (weights_n_bits, kept in num_bits).    *)
(***************************************************************************)
C15_CallReturnsQuantized ==
    ste.pc = "called" =>
        /\ ste.outcome.raised = NONE
        /\ ste.outcome.value =
              uniform_quantizer(ste.tensor, ste.self.min_values, ste.self.max_values,
                                ste.quantization_config.weights_n_bits)

=============================================================================
